---------------------------- MODULE Spec2Model ----------------------------
(***************************************************************************)
(* The chat endpoint of BioBot-Chat: POST /api/chat                        *)
(* (src/app/(chat)/api/chat/route.ts), DELETE /api/chat                    *)
(* (src/unnamed/part_001, the variant of the route file that carries the   *)
(* DELETE handler) and GET /api/chat/[id]/stream (src/unnamed/part_005).   *)
(*                                                                         *)
(* Spec is the endpoint under concurrent requests whose generations yield  *)
(* text only; GenSpec follows the generation of one request through its    *)
(* model steps and tool rounds.                                            *)
(*                                                                         *)
(* Every `await` of a handler that touches the Conversation Store is a     *)
(* point where another request may run, so each store access is one step.  *)
(* The store functions (lib/db/queries) are not part of the sources at     *)
(* hand; they are modelled after section 4.2 of the specification.         *)
(***************************************************************************)
EXTENDS Integers, Sequences, FiniteSets, TLC

(* ------------------------------ bounds -------------------------------- *)

\* Requests (POST or DELETE) handled in one run; they may overlap.
MaxReq == 2

\* text-delta events a generation emits before its terminal event.
MaxDeltas == 1

\* entitlementsByUserType[...].maxMessagesPerDay, scaled down (the table is
\* in lib/ai/entitlements; the spec only requires N_r > N_g).
GuestMax == 1

RegularMax == 2

\* stopWhen: stepCountIs(5)
StepLimit == 5

\* Redirects a browser follows before it gives up on a page.
MaxRedirects == 3

\* new Response('pong', { status: 200 })
PongStatus == 200

(* ----------------------------- universe ------------------------------- *)

Users == {"u1", "u2"}

NoUser == "anonymous"

NoChat == "none"

ChatIds == {"c1", "c2"}

Reqs == 1..MaxReq

\* session.user.type
UserType(u) == IF u = "u1" THEN "guest" ELSE "regular"

\* entitlementsByUserType[userType].maxMessagesPerDay
MaxMessagesPerDay(t) == IF t = "guest" THEN GuestMax ELSE RegularMax

VARIABLES
    chats,      \* Chat table: chat id -> chat.userId, or NoChat
    msgs,       \* Message table, per chat in createdAt order
    streams,    \* Stream table: set of [streamId, chatId]
    redis,      \* whether REDIS_URL is configured for this deployment
    started,    \* number of requests received so far
    req,        \* per request: what was asked
    pc,         \* per request: where its handler stands
    created,    \* the requests whose saveChat created their chat
    uiHistory,  \* per request: the messages its handler hands to the model
    resp,       \* per request: the HTTP response returned, or "none"
    produced,   \* per request: the events the UI message stream has yielded
    log,        \* per request: the relay's durable log for its streamId
    delivered,  \* per request: the events written to its own response
    connected,  \* per request: whether the client still reads the response
    globalCtx,  \* per request: the handler's stream context, once it tried
    selector,   \* per request: body.selectedChatModel
    steps,      \* per request: model steps streamText has started
    visit,      \* a page visit: the request at the middleware and its answer
    gen         \* per request: what the running step is waiting on

store == <<chats, msgs, streams>>

vars == <<chats, msgs, streams, redis, visit, started, req, pc, created,
          uiHistory, resp, produced, log, delivered, connected, globalCtx, selector, steps, gen>>

NoReq == [kind |-> "none", user |-> NoUser, chat |-> NoChat, valid |-> FALSE,
          stream |-> 0]

\* What a client may send: a request the handler cannot read (POST: the body
\* fails the schema; DELETE: no id parameter), or a readable one naming a
\* chat, sent with or without a session.
Requests(kind) ==
    {[kind |-> kind, user |-> NoUser, chat |-> NoChat, valid |-> FALSE,
      stream |-> 0]}
    \cup {[kind |-> kind, user |-> u, chat |-> c, valid |-> TRUE, stream |-> 0] :
              u \in Users \cup {NoUser}, c \in ChatIds}

\* A URL of this site: the pieces of its pathname and of its query text.
NoUrl == [pathname |-> <<>>, search |-> <<>>]

\* No answer yet.
NoResponse == [kind |-> "none", status |-> 0, body |-> "", location |-> NoUrl]

\* No page is being visited.
NoVisit == [stage |-> "idle", url |-> NoUrl, token |-> "null",
            response |-> NoResponse, redirects |-> 0]

(* --------------------- Conversation Store (4.2) ----------------------- *)

RECURSIVE CountRecent(_)
CountRecent(s) ==
    IF s = <<>> THEN 0
    ELSE (IF Head(s).role = "user" /\ Head(s).recent THEN 1 ELSE 0)
         + CountRecent(Tail(s))

RECURSIVE SumOver(_, _)
SumOver(S, tbl) ==
    IF S = {} THEN 0
    ELSE LET c == CHOOSE x \in S : TRUE
         IN  CountRecent(tbl[c]) + SumOver(S \ {c}, tbl)

\* getMessageCountByUserId({id, differenceInHours: 24}): the user's own
\* messages of the last 24 hours (messages carry no author; a message is
\* the user's when the chat it belongs to is).
MessageCountIn(ch, tbl, u) == SumOver({c \in ChatIds : ch[c] = u}, tbl)

getMessageCountByUserId(u) == MessageCountIn(chats, msgs, u)

\* getChatById({id}): the chat's row, or nothing
getChatById(c) == chats[c]

\* getMessagesByChatId({id}): ascending createdAt
getMessagesByChatId(c) == msgs[c]

UserMessage(r) == [role |-> "user", recent |-> TRUE, by |-> r]

AssistantMessage(r) == [role |-> "assistant", recent |-> TRUE, by |-> r]

\* A chat's earlier exchanges: k user messages, each with its reply, written
\* within the last 24 hours (recent) or before.
RECURSIVE Exchanges(_, _)
Exchanges(k, recent) ==
    IF k = 0 THEN <<>>
    ELSE Exchanges(k - 1, recent)
            \o <<[role |-> "user", recent |-> recent, by |-> 0],
                 [role |-> "assistant", recent |-> recent, by |-> 0]>>

\* body.message: the UI message request r posts
ChatMessage(r) == [id |-> r, role |-> "user"]

\* convertToUIMessages(messages): each stored row as a UI message, in order;
\* the row's createdAt is not part of what the model is given
convertToUIMessages(h) ==
    [i \in 1..Len(h) |-> [id |-> h[i].by, role |-> h[i].role]]

\* convertToModelMessages(uiMessages): role and content of each, in order
convertToModelMessages(ui) ==
    [i \in 1..Len(ui) |-> [role |-> ui[i].role, content |-> ui[i].id]]

\* The stream id minted by the request that wrote a chat's earlier exchanges.
PriorStreamId(c) == IF c = "c1" THEN 0 - 1 ELSE 0 - 2

\* generateUUID(): one fresh id per request
StreamIdOf(r) == r

StreamIds == {s.streamId : s \in streams}

\* saveChat({id, userId, ...}): a new row; the id is the primary key
saveChat(c, u) == [chats EXCEPT ![c] = u]

\* saveMessages({messages}): appended in order
saveMessages(c, m) == [msgs EXCEPT ![c] = Append(@, m)]

\* createStreamId({streamId, chatId})
createStreamId(s, c) == streams \cup {[streamId |-> s, chatId |-> c]}

(* ------------------------------- Init ---------------------------------- *)

\* The store of a deployment that has served requests before: any chats, any
\* earlier exchanges within every owner's daily quota.  No request in flight.
Init ==
    /\ chats \in [ChatIds -> Users \cup {NoChat}]
    /\ \E k \in [ChatIds -> {0, 1}], recent \in [ChatIds -> BOOLEAN] :
          /\ \A c \in ChatIds : chats[c] = NoChat => k[c] = 0
          /\ \A c \in ChatIds : k[c] = 0 => recent[c]
          /\ msgs = [c \in ChatIds |-> Exchanges(k[c], recent[c])]
          /\ streams = {[streamId |-> PriorStreamId(c), chatId |-> c] :
                            c \in {x \in ChatIds : k[x] > 0}}
    /\ \A u \in Users :
          MessageCountIn(chats, msgs, u) <= MaxMessagesPerDay(UserType(u))
    /\ redis \in BOOLEAN
    /\ visit = NoVisit
    /\ started = 0
    /\ req = [r \in Reqs |-> NoReq]
    /\ pc = [r \in Reqs |-> "idle"]
    /\ created = {}
    /\ uiHistory = [r \in Reqs |-> <<>>]
    /\ resp = [r \in Reqs |-> "none"]
    /\ produced = [r \in Reqs |-> <<>>]
    /\ log = [r \in Reqs |-> <<>>]
    /\ delivered = [r \in Reqs |-> <<>>]
    /\ connected = [r \in Reqs |-> FALSE]
    /\ globalCtx = [r \in Reqs |-> "unset"]
    /\ selector = [r \in Reqs |-> "chat-model-reasoning"]
    /\ steps = [r \in Reqs |-> 0]
    /\ gen = [r \in Reqs |-> "idle"]

(* ------------------------------- POST ---------------------------------- *)

streamVars == <<produced, log, delivered, connected, globalCtx, steps, gen>>

\* What a step of the streaming phase leaves alone.
handlerVars == <<redis, visit, started, req, created, uiHistory, selector>>

\* The handler returns `kind` and has written nothing.
Reply(r, kind) ==
    /\ resp' = [resp EXCEPT ![r] = kind]
    /\ pc' = [pc EXCEPT ![r] = "done"]
    /\ UNCHANGED store

\* The handler goes on to its next await.
Goto(r, next) ==
    /\ pc' = [pc EXCEPT ![r] = next]
    /\ UNCHANGED resp

\* An exception nothing catches: the framework answers 500.
Throw(r) ==
    /\ resp' = [resp EXCEPT ![r] = "crash"]
    /\ pc' = [pc EXCEPT ![r] = "done"]

\* The gate with the comparison one off: denies at count = ceiling already.
QuotaExceededGE(count, t) == count >= MaxMessagesPerDay(t)

\* messageCount > entitlementsByUserType[userType].maxMessagesPerDay
QuotaExceeded(count, t) == count > MaxMessagesPerDay(t)

\* The gate placed after the message append: the denied request has
\* already stored its message.
RejectRateLimitAfterSave(r) ==
    /\ resp' = [resp EXCEPT ![r] = "rate_limit"]
    /\ pc' = [pc EXCEPT ![r] = "done"]
    /\ msgs' = saveMessages(req'[r].chat, UserMessage(r))
    /\ UNCHANGED <<chats, streams>>

\* return new ChatSDKError('rate_limit:chat').toResponse()
RejectRateLimit(r) == Reply(r, "rate_limit")

\* Parse and validate the body, authenticate, read the 24h message count and
\* compare it with the tier's ceiling.
PostStart(r) ==
    /\ r = started + 1
    /\ r \in Reqs
    /\ started' = r
    /\ \E q \in Requests("POST") :
       LET u == q.user
           c == q.chat
       IN
          /\ req' = [req EXCEPT ![r] = q]
          /\ IF ~q.valid THEN Reply(r, "bad_request")
             ELSE IF u = NoUser THEN Reply(r, "unauthorized")
             ELSE IF QuotaExceeded(getMessageCountByUserId(u), UserType(u))
                  THEN RejectRateLimit(r)
                  ELSE Goto(r, "getChat") /\ UNCHANGED store
    /\ UNCHANGED <<redis, visit, created, uiHistory, selector, streamVars>>

\* The ownership check placed after the message append.
RejectForbiddenAfterSave(r) ==
    /\ resp' = [resp EXCEPT ![r] = "forbidden"]
    /\ pc' = [pc EXCEPT ![r] = "done"]
    /\ msgs' = saveMessages(req[r].chat, UserMessage(r))
    /\ UNCHANGED <<chats, streams>>

\* The ownership check placed after the stream id is registered.
RejectForbiddenAfterStreamId(r) ==
    /\ resp' = [resp EXCEPT ![r] = "forbidden"]
    /\ pc' = [pc EXCEPT ![r] = "done"]
    /\ streams' = createStreamId(StreamIdOf(r), req[r].chat)
    /\ UNCHANGED <<chats, msgs>>

\* return new ChatSDKError('forbidden:chat').toResponse()
RejectForbidden(r) == Reply(r, "forbidden")

\* existingChat = await getChatById({ id }) and the branch on it
PostGetChat(r) ==
    /\ pc[r] = "getChat"
    /\ LET existingChat == getChatById(req[r].chat)
       IN  IF existingChat = NoChat THEN Goto(r, "saveChat") /\ UNCHANGED store
           ELSE IF existingChat # req[r].user THEN RejectForbidden(r)
           ELSE Goto(r, "history") /\ UNCHANGED store
    /\ UNCHANGED <<handlerVars, streamVars>>

\* The chat row written over whatever row has the id.
PostSaveChatOverwriting(r) ==
    /\ pc[r] = "saveChat"
    /\ chats' = saveChat(req[r].chat, req[r].user)
    /\ created' = created \cup {r}
    /\ Goto(r, "history")
    /\ UNCHANGED <<msgs, streams, redis, visit, started, req, uiHistory, selector,
                   streamVars>>

\* await saveChat(...): fails when the id was taken in the meantime
PostSaveChat(r) ==
    /\ pc[r] = "saveChat"
    /\ IF chats[req[r].chat] = NoChat
       THEN /\ chats' = saveChat(req[r].chat, req[r].user)
            /\ created' = created \cup {r}
            /\ Goto(r, "history")
       ELSE /\ Throw(r)
            /\ UNCHANGED <<chats, created>>
    /\ UNCHANGED <<msgs, streams, redis, visit, started, req, uiHistory, selector,
                   streamVars>>

\* The history read once the user's message is already stored.
PostHistoryAfterSave(r) ==
    /\ pc[r] = "history"
    /\ uiHistory' = [uiHistory EXCEPT ![r] =
                        convertToUIMessages(
                            Append(getMessagesByChatId(req[r].chat), UserMessage(r)))
                        \o <<ChatMessage(r)>>]
    /\ Goto(r, "saveMessages")
    /\ UNCHANGED <<store, redis, visit, started, req, created, selector,
                   streamVars>>

\* history = await getMessagesByChatId({ id });
\* uiHistory = [...convertToUIMessages(history), message]
PostHistory(r) ==
    /\ pc[r] = "history"
    /\ uiHistory' = [uiHistory EXCEPT ![r] =
                        convertToUIMessages(getMessagesByChatId(req[r].chat))
                        \o <<ChatMessage(r)>>]
    /\ Goto(r, "saveMessages")
    /\ UNCHANGED <<store, redis, visit, started, req, created, selector,
                   streamVars>>

\* await saveMessages({ messages: [the user's message] }): a message row
\* references its chat
PostSaveMessages(r) ==
    /\ pc[r] = "saveMessages"
    /\ IF chats[req[r].chat] # NoChat
       THEN /\ msgs' = saveMessages(req[r].chat, UserMessage(r))
            /\ Goto(r, "createStreamId")
       ELSE /\ Throw(r)
            /\ UNCHANGED msgs
    /\ UNCHANGED <<chats, streams, handlerVars, streamVars>>

\* The stream built without registering its id first.
PostCreateStreamIdUnregistered(r) ==
    /\ pc[r] = "createStreamId"
    /\ Goto(r, "openStream")
    /\ UNCHANGED <<store, handlerVars, streamVars>>

\* streamId = generateUUID(); await createStreamId({ chatId: id, streamId })
PostCreateStreamId(r) ==
    /\ pc[r] = "createStreamId"
    /\ IF chats[req[r].chat] # NoChat
       THEN /\ streams' = createStreamId(StreamIdOf(r), req[r].chat)
            /\ Goto(r, "openStream")
       ELSE /\ Throw(r)
            /\ UNCHANGED streams
    /\ UNCHANGED <<chats, msgs, handlerVars, streamVars>>

\* createResumableStreamContext({ waitUntil: after }): a context when
\* REDIS_URL is configured, unless the broker's configuration is unusable; an
\* error naming REDIS_URL when it is not.
createResumableStreamContext ==
    IF redis THEN {"context", "error"} ELSE {"REDIS_URL"}

\* The missing broker treated as a hard error: every failure to make the
\* context is thrown on.
RethrownAlways(e) == e # "context"

\* if (!e.message.includes('REDIS_URL')) throw e
Rethrown(e) == e \notin {"context", "REDIS_URL"}

\* Create the stream context, build the UI message stream (its producer
\* starts at once with the first model step), hand it to the relay when there
\* is one, return 200.
PostOpenStream(r) ==
    /\ pc[r] = "openStream"
    /\ \E made \in createResumableStreamContext :
          /\ globalCtx' = [globalCtx EXCEPT ![r] =
                              IF made = "context" THEN "context" ELSE "null"]
          /\ IF Rethrown(made)
             THEN /\ Throw(r)
                  /\ UNCHANGED <<connected, steps, gen>>
             ELSE /\ resp' = [resp EXCEPT ![r] = "stream"]
                  /\ pc' = [pc EXCEPT ![r] = "streaming"]
                  /\ connected' = [connected EXCEPT ![r] = TRUE]
                  /\ steps' = [steps EXCEPT ![r] = 1]
                  /\ gen' = [gen EXCEPT ![r] = "model"]
    /\ UNCHANGED <<store, handlerVars, produced, log, delivered>>

(* ---------------------------- generation ------------------------------- *)

\* A StreamEvent: its kind, the tool call it belongs to (0: none) and what it
\* carries.
Event(type, call, payload) == [type |-> type, call |-> call, payload |-> payload]

Terminal == {"done", "error"}

Types(events) == {events[i].type : i \in 1..Len(events)}

Closed(events) == events # <<>> /\ events[Len(events)].type \in Terminal

RECURSIVE Deltas(_)
Deltas(events) ==
    IF events = <<>> THEN 0
    ELSE (IF Head(events).type = "text-delta" THEN 1 ELSE 0)
         + Deltas(Tail(events))

\* One event leaves the UI message stream: the relay appends it to the
\* stream's log when the request has a relay, and the POST's response
\* carries it to the client as long as the client reads.
Publish(r, e) ==
    /\ produced' = [produced EXCEPT ![r] = Append(@, e)]
    /\ log' = [log EXCEPT ![r] =
                  IF globalCtx[r] = "context" THEN Append(@, e) ELSE @]
    /\ delivered' = [delivered EXCEPT ![r] =
                        IF connected[r] THEN Append(@, e) ELSE @]

\* streamText yields the next word-sized chunk of the model's text
Produce(r) ==
    /\ pc[r] = "streaming"
    /\ gen[r] = "model"
    /\ Deltas(produced[r]) < MaxDeltas
    /\ Publish(r, Event("text-delta", 0, "text"))
    /\ UNCHANGED <<store, handlerVars, pc, resp, connected, globalCtx, steps, gen>>

\* onFinish handed the request's message along with the reply (as it is when
\* the stream is given the original messages): the user message is stored
\* a second time.
OnFinishWithRequestMessage(r) ==
    IF chats[req[r].chat] # NoChat
    THEN msgs' = [msgs EXCEPT ![req[r].chat] =
                     @ \o <<UserMessage(r), AssistantMessage(r)>>]
    ELSE UNCHANGED msgs

\* The reply stored without regard to the chat it belongs to.
OnFinishIntoDeletedChat(r) ==
    msgs' = saveMessages(req[r].chat, AssistantMessage(r))

\* onFinish: await saveMessages({ messages: [the assistant's message] })
OnFinish(r) ==
    IF chats[req[r].chat] # NoChat
    THEN msgs' = saveMessages(req[r].chat, AssistantMessage(r))
    ELSE UNCHANGED msgs

\* The stream left open after its last chunk: the producer goes on.
EndWithoutClosing(r, e) ==
    /\ Publish(r, e)
    /\ OnFinish(r)
    /\ UNCHANGED <<chats, streams, handlerVars, pc, resp, connected, globalCtx,
                   steps, gen>>

\* The stream ends with the chunk e: the chunk goes out, then the stream's
\* flush runs onFinish, which is called on every end of the stream.  When
\* onFinish throws (the chat is gone) the stream breaks off after e.
End(r, e) ==
    /\ Publish(r, e)
    /\ OnFinish(r)
    /\ pc' = [pc EXCEPT ![r] =
                 IF chats[req[r].chat] # NoChat THEN "done" ELSE "broken"]
    /\ UNCHANGED <<chats, streams, handlerVars, resp, connected, globalCtx,
                   steps, gen>>

\* The cap ignored: the generation never stops on its number of steps.
stepCountIsNever(n, count) == FALSE

\* stepCountIs(5): the stop condition, looked at when a step with tool
\* results has ended
stepCountIs(n, count) == count = n

\* The model's text ends without a tool call, or the step that just ended
\* was the last one allowed: the stream closes with done.
Finish(r) ==
    /\ pc[r] = "streaming"
    /\ \/ gen[r] = "model"
       \/ gen[r] = "stepEnd" /\ stepCountIs(StepLimit, steps[r])
    /\ End(r, Event("done", 0, ""))

\* What the model backend may report when it fails.
BackendErrors == {"ECONNRESET reading upstream", "401 invalid api key sk-test"}

\* The error chunk carrying the failure's own message.
onErrorLeaking(e) == e

\* onError: () => 'An error occurred.'
onError(e) == "An error occurred."

\* The model backend fails while a step waits on it: onError turns the
\* failure into an error chunk and the stream ends.
Fail(r) ==
    /\ pc[r] = "streaming"
    /\ gen[r] = "model"
    /\ \E cause \in BackendErrors : End(r, Event("error", 0, onError(cause)))

(* ------------------------------- tools --------------------------------- *)

\* The tools handed to streamText
Tools == {"getWeather", "createDocument", "updateDocument", "requestSuggestions"}

Selectors == {"chat-model", "chat-model-reasoning"}

\* The tools left on whatever the selector.
activeToolsAlways(selectedChatModel) == Tools

\* experimental_activeTools
activeTools(selectedChatModel) ==
    IF selectedChatModel = "chat-model-reasoning" THEN {} ELSE Tools

\* The model can ask for tool t now.
CanCall(r, t) ==
    /\ pc[r] = "streaming"
    /\ gen[r] = "model"
    /\ t \in activeTools(selector[r])

\* The model asks for tool t: the call is announced and the tool invoked.
\* The calls of a generation are numbered by the step that made them.
Invoke(r, t) ==
    /\ CanCall(r, t)
    /\ gen' = [gen EXCEPT ![r] = t]
    /\ Publish(r, Event("tool-call-start", steps[r], "input"))
    /\ UNCHANGED <<store, handlerVars, pc, resp, connected, globalCtx, steps>>

\* The model's step turns to one of the tools it was offered.
ToolCall(r) == \E t \in Tools : Invoke(r, t)

\* What a tool's execute comes back with: its output, or the error it threw.
ToolOutcomes == {"output", "failure"}

\* A tool's failure treated as the generation's: the stream ends with error.
ToolReturnsAborting(r, outcome) ==
    IF outcome = "failure"
    THEN End(r, Event("error", 0, onError(outcome)))
    ELSE /\ Publish(r, Event("tool-call-result", steps[r], outcome))
         /\ gen' = [gen EXCEPT ![r] = "stepEnd"]
         /\ UNCHANGED <<store, handlerVars, pc, resp, connected, globalCtx, steps>>

\* streamText takes what the tool came back with, output or failure, as the
\* call's result; the step ends.
ToolReturns(r, outcome) ==
    /\ Publish(r, Event("tool-call-result", steps[r], outcome))
    /\ gen' = [gen EXCEPT ![r] = "stepEnd"]
    /\ UNCHANGED <<store, handlerVars, pc, resp, connected, globalCtx, steps>>

\* The tool's completion kept from the stream: the step ends with no result
\* event for the call.
ToolResultUnannounced(r) ==
    /\ pc[r] = "streaming"
    /\ gen[r] \in Tools
    /\ gen' = [gen EXCEPT ![r] = "stepEnd"]
    /\ UNCHANGED <<store, handlerVars, pc, resp, produced, log, delivered,
                   connected, globalCtx, steps>>

\* The invoked tool completes.
ToolResult(r) ==
    /\ pc[r] = "streaming"
    /\ gen[r] \in Tools
    /\ \E outcome \in ToolOutcomes : ToolReturns(r, outcome)

\* The model is called again with the tool's result in its context.
NextStep(r) ==
    /\ pc[r] = "streaming"
    /\ gen[r] = "stepEnd"
    /\ ~stepCountIs(StepLimit, steps[r])
    /\ steps[r] <= StepLimit      \* keeps the count finite whatever the cap
    /\ steps' = [steps EXCEPT ![r] = @ + 1]
    /\ gen' = [gen EXCEPT ![r] = "model"]
    /\ UNCHANGED <<store, handlerVars, pc, resp, produced, log, delivered,
                   connected, globalCtx>>

\* Without consumeStream the reader's cancel reaches the model's stream.
ProducerAfterDisconnectCancelled(r) == "cancelled"

\* result.consumeStream(): the model's stream is read to its end whether or
\* not anyone reads the response, so a client going away stops nothing.
ProducerAfterDisconnect(r) == pc[r]

\* The client's connection closes while the response is being streamed.
ClientDisconnect(r) ==
    /\ pc[r] = "streaming"
    /\ connected[r]
    /\ connected' = [connected EXCEPT ![r] = FALSE]
    /\ pc' = [pc EXCEPT ![r] = ProducerAfterDisconnect(r)]
    /\ UNCHANGED <<store, handlerVars, resp, produced, log, delivered,
                   globalCtx, steps, gen>>

(* -------------------- GET /api/chat/[id]/stream ------------------------ *)

\* return new Response("Not Found", { status: 404 }): the response of the
\* resume route, whatever the stream asked for
GET(s) == [status |-> "not_found", events |-> <<>>]

\* A client asks to attach to the stream of a POST that answered 200.
GetStream(r) ==
    /\ r = started + 1
    /\ r \in Reqs
    /\ started' = r
    /\ \E p \in Reqs :
          /\ resp[p] = "stream"
          /\ req' = [req EXCEPT ![r] =
                        [kind |-> "GET", user |-> req[p].user, chat |-> req[p].chat,
                         valid |-> TRUE, stream |-> StreamIdOf(p)]]
          /\ resp' = [resp EXCEPT ![r] = GET(StreamIdOf(p)).status]
          /\ delivered' = [delivered EXCEPT ![r] = GET(StreamIdOf(p)).events]
    /\ pc' = [pc EXCEPT ![r] = "done"]
    /\ UNCHANGED <<store, redis, visit, created, uiHistory, selector, produced, log,
                   connected, globalCtx, steps, gen>>

(* ------------------------------ DELETE --------------------------------- *)

\* The ownership check placed after deleteChatById.
DeleteForbiddenAfterDelete(r) ==
    /\ resp' = [resp EXCEPT ![r] = "forbidden"]
    /\ pc' = [pc EXCEPT ![r] = "done"]
    /\ chats' = [chats EXCEPT ![req'[r].chat] = NoChat]
    /\ msgs' = [msgs EXCEPT ![req'[r].chat] = <<>>]
    /\ streams' = {s \in streams : s.chatId # req'[r].chat}

\* return new ChatSDKError('forbidden:chat').toResponse()
DeleteForbidden(r) == Reply(r, "forbidden")

\* Read the id parameter, authenticate, look the chat up and compare its
\* userId with the requester's.  `chat.userId` of a chat that is not there
\* is a TypeError.
DeleteStart(r) ==
    /\ r = started + 1
    /\ r \in Reqs
    /\ started' = r
    /\ \E q \in Requests("DELETE") :
       LET u == q.user
           c == q.chat
       IN
          /\ req' = [req EXCEPT ![r] = q]
          /\ IF ~q.valid THEN Reply(r, "bad_request")
             ELSE IF u = NoUser THEN Reply(r, "unauthorized")
             ELSE IF getChatById(c) = NoChat THEN Throw(r) /\ UNCHANGED store
             ELSE IF getChatById(c) # u THEN DeleteForbidden(r)
             ELSE Goto(r, "deleteChat") /\ UNCHANGED store
    /\ UNCHANGED <<redis, visit, created, uiHistory, selector, streamVars>>

\* deleted = await deleteChatById({ id }): the chat, its messages and its
\* stream records go; return Response.json(deleted, { status: 200 })
DeleteChat(r) ==
    /\ pc[r] = "deleteChat"
    /\ chats' = [chats EXCEPT ![req[r].chat] = NoChat]
    /\ msgs' = [msgs EXCEPT ![req[r].chat] = <<>>]
    /\ streams' = {s \in streams : s.chatId # req[r].chat}
    /\ resp' = [resp EXCEPT ![r] = "deleted"]
    /\ pc' = [pc EXCEPT ![r] = "done"]
    /\ UNCHANGED <<handlerVars, streamVars>>

(* ------------------------------- Spec ---------------------------------- *)

Next ==
    \/ \E r \in Reqs : PostStart(r)
    \/ \E r \in Reqs : PostGetChat(r)
    \/ \E r \in Reqs : PostSaveChat(r)
    \/ \E r \in Reqs : PostHistory(r)
    \/ \E r \in Reqs : PostSaveMessages(r)
    \/ \E r \in Reqs : PostCreateStreamId(r)
    \/ \E r \in Reqs : PostOpenStream(r)
    \/ \E r \in Reqs : Produce(r)
    \/ \E r \in Reqs : Finish(r)
    \/ \E r \in Reqs : Fail(r)
    \/ \E r \in Reqs : ClientDisconnect(r)
    \/ \E r \in Reqs : GetStream(r)
    \/ \E r \in Reqs : DeleteStart(r)
    \/ \E r \in Reqs : DeleteChat(r)

Spec == Init /\ [][Next]_vars

\* The event loop gets to every pending step of a running producer.
Generation(r) == Produce(r) \/ Finish(r) \/ Fail(r)

FairSpec == Spec /\ \A r \in Reqs : WF_vars(Generation(r))

(* ------------------- one generation, step by step ---------------------- *)

\* The POST whose generation GenSpec follows.
TheRequest == [kind |-> "POST", user |-> "u2", chat |-> "c1", valid |-> TRUE,
               stream |-> 0]

\* One POST, with either model selector, has created its chat, stored the
\* user's message and registered its stream id (POST steps 1 to 6).  GenSpec
\* takes it from there, with GET and DELETE requests arriving meanwhile.
GenInit ==
    /\ chats = [c \in ChatIds |-> IF c = TheRequest.chat THEN TheRequest.user
                                  ELSE NoChat]
    /\ msgs = [c \in ChatIds |-> IF c = TheRequest.chat THEN <<UserMessage(1)>>
                                 ELSE <<>>]
    /\ streams = {[streamId |-> StreamIdOf(1), chatId |-> TheRequest.chat]}
    /\ redis \in BOOLEAN
    /\ visit = NoVisit
    /\ started = 1
    /\ req = [r \in Reqs |-> IF r = 1 THEN TheRequest ELSE NoReq]
    /\ pc = [r \in Reqs |-> IF r = 1 THEN "openStream" ELSE "idle"]
    /\ created = {1}
    /\ uiHistory = [r \in Reqs |-> IF r = 1 THEN <<ChatMessage(1)>> ELSE <<>>]
    /\ resp = [r \in Reqs |-> "none"]
    /\ produced = [r \in Reqs |-> <<>>]
    /\ log = [r \in Reqs |-> <<>>]
    /\ delivered = [r \in Reqs |-> <<>>]
    /\ connected = [r \in Reqs |-> FALSE]
    /\ globalCtx = [r \in Reqs |-> "unset"]
    /\ \E m \in Selectors :
          selector = [r \in Reqs |-> IF r = 1 THEN m ELSE "chat-model-reasoning"]
    /\ steps = [r \in Reqs |-> 0]
    /\ gen = [r \in Reqs |-> "idle"]

GenNext ==
    \/ \E r \in Reqs : PostOpenStream(r)
    \/ \E r \in Reqs : Produce(r)
    \/ \E r \in Reqs : ToolCall(r)
    \/ \E r \in Reqs : ToolResult(r)
    \/ \E r \in Reqs : NextStep(r)
    \/ \E r \in Reqs : Finish(r)
    \/ \E r \in Reqs : Fail(r)
    \/ \E r \in Reqs : ClientDisconnect(r)
    \/ \E r \in Reqs : GetStream(r)
    \/ \E r \in Reqs : DeleteStart(r)
    \/ \E r \in Reqs : DeleteChat(r)

\* A step of the handler or of the producer it started.
Running(r) ==
    \/ PostOpenStream(r)
    \/ Produce(r)
    \/ ToolCall(r)
    \/ ToolResult(r)
    \/ NextStep(r)
    \/ Finish(r)
    \/ Fail(r)

\* The event loop gets to every pending step; the model backend and the
\* tools answer or fail, they do not hang.
GenSpec == GenInit /\ [][GenNext]_vars /\ \A r \in Reqs : WF_vars(Running(r))

(* ----------------------------- middleware ------------------------------ *)

\* Everything the chat API's handlers work on.
apiVars == <<chats, msgs, streams, redis, started, req, pc, created, uiHistory,
             resp, produced, log, delivered, connected, globalCtx, selector,
             steps, gen>>

\* request.url begins with the site's origin.
Origin == "https://host"

\* Pathnames a browser may ask for, each as the pieces of its text.
Pathnames ==
    { <<"/">>, <<"/ping">>, <<"/ping", "pong">>,
      <<"/api", "/auth", "/guest">>, <<"/api", "/auth", "/session">>,
      <<"/api", "/auth", "orize">>, <<"/api", "/chat">>,
      <<"/login">>, <<"/register">>, <<"/chat", "/1">>, <<"/docs">>,
      <<"/_next/static", "/app.js">>, <<"/favicon.ico">> }

\* Query texts a browser may send.
Searches == { <<>>, <<"q=1">> }

\* What getToken finds: null, or a token by its email ("" when it has none).
Tokens == {"null", "", "guest-1", "user@example.com"}

\* guestRegex.test(email): guest-<digits>
guestRegex(email) == email = "guest-1"

\* text.startsWith(prefix)
startsWith(text, prefix) ==
    /\ Len(prefix) <= Len(text)
    /\ SubSeq(text, 1, Len(prefix)) = prefix

\* request.url: origin, pathname and, behind a question mark, the query
href(url) ==
    <<Origin>> \o url.pathname
        \o (IF url.search = <<>> THEN <<>> ELSE <<"?">> \o url.search)

\* encodeURIComponent on one piece of text: ':', '/', '?' and '=' escaped
Escape(piece) ==
    CASE piece = "https://host" -> "https%3A%2F%2Fhost"
      [] piece = "/" -> "%2F"
      [] piece = "/ping" -> "%2Fping"
      [] piece = "/api" -> "%2Fapi"
      [] piece = "/auth" -> "%2Fauth"
      [] piece = "/guest" -> "%2Fguest"
      [] piece = "/session" -> "%2Fsession"
      [] piece = "/chat" -> "%2Fchat"
      [] piece = "/1" -> "%2F1"
      [] piece = "/login" -> "%2Flogin"
      [] piece = "/register" -> "%2Fregister"
      [] piece = "/docs" -> "%2Fdocs"
      [] piece = "/_next/static" -> "%2F_next%2Fstatic"
      [] piece = "/app.js" -> "%2Fapp.js"
      [] piece = "/favicon.ico" -> "%2Ffavicon.ico"
      [] piece = "?" -> "%3F"
      [] piece = "q=1" -> "q%3D1"
      [] OTHER -> piece

\* encodeURIComponent(text)
encodeURIComponent(text) == [i \in 1..Len(text) |-> Escape(text[i])]

\* config.matcher: '/', '/chat/:id', '/api/:path*', '/login', '/register',
\* and every pathname that does not begin with /_next/static, /_next/image,
\* /favicon.ico, /sitemap.xml or /robots.txt
matcher(pathname) ==
    \/ pathname \in { <<"/">>, <<"/login">>, <<"/register">> }
    \/ Len(pathname) = 2 /\ startsWith(pathname, <<"/chat">>)
    \/ startsWith(pathname, <<"/api">>)
    \/ \A excluded \in { <<"/_next/static">>, <<"/_next/image">>,
                         <<"/favicon.ico">>, <<"/sitemap.xml">>,
                         <<"/robots.txt">> } :
           ~startsWith(pathname, excluded)

\* new Response('pong', { status: 200 })
Pong == [kind |-> "response", status |-> PongStatus, body |-> "pong",
         location |-> NoUrl]

\* NextResponse.next()
PassThrough == [kind |-> "next", status |-> 0, body |-> "", location |-> NoUrl]

\* NextResponse.redirect(new URL(to, request.url))
Redirect(to) == [kind |-> "redirect", status |-> 0, body |-> "", location |-> to]

\* new URL(`/api/auth/guest?redirectUrl=${redirectUrl}`, request.url)
GuestUrl(redirectUrl) ==
    [pathname |-> <<"/api", "/auth", "/guest">>,
     search |-> <<"redirectUrl=">> \o redirectUrl]

\* The middleware with the token check ahead of the auth routes' pass.
middlewareGuardingAuthRoutes(url, token) ==
    IF startsWith(url.pathname, <<"/ping">>) THEN Pong
    ELSE IF token = "null"
    THEN Redirect(GuestUrl(encodeURIComponent(href(url))))
    ELSE IF startsWith(url.pathname, <<"/api", "/auth">>) THEN PassThrough
    ELSE IF ~guestRegex(token) /\ url.pathname \in { <<"/login">>, <<"/register">> }
    THEN Redirect([pathname |-> <<"/">>, search |-> <<>>])
    ELSE PassThrough

\* middleware(request), for a request with this url and this token
middleware(url, token) ==
    IF startsWith(url.pathname, <<"/ping">>) THEN Pong
    ELSE IF startsWith(url.pathname, <<"/api", "/auth">>) THEN PassThrough
    ELSE IF token = "null"
    THEN Redirect(GuestUrl(encodeURIComponent(href(url))))
    ELSE IF ~guestRegex(token) /\ url.pathname \in { <<"/login">>, <<"/register">> }
    THEN Redirect([pathname |-> <<"/">>, search |-> <<>>])
    ELSE PassThrough

\* A browser asks for a page.
Navigate ==
    /\ visit.stage = "idle"
    /\ \E p \in Pathnames, q \in Searches, t \in Tokens :
          visit' = [stage |-> "sent", url |-> [pathname |-> p, search |-> q],
                    token |-> t, response |-> NoResponse, redirects |-> 0]
    /\ UNCHANGED apiVars

\* The request is answered: by the middleware when the matcher covers its
\* pathname, and handed on untouched when it does not.
Answer ==
    /\ visit.stage = "sent"
    /\ visit' = [visit EXCEPT
                    !.stage = "answered",
                    !.response = IF matcher(visit.url.pathname)
                                 THEN middleware(visit.url, visit.token)
                                 ELSE PassThrough]
    /\ UNCHANGED apiVars

\* The browser follows a redirect: it asks for the Location with the cookies
\* it has.
Follow ==
    /\ visit.stage = "answered"
    /\ visit.response.kind = "redirect"
    /\ visit.redirects < MaxRedirects
    /\ visit' = [visit EXCEPT
                    !.stage = "sent",
                    !.url = visit.response.location,
                    !.response = NoResponse,
                    !.redirects = @ + 1]
    /\ UNCHANGED apiVars

\* No request at the chat API, nothing stored.
MwInit ==
    /\ Init
    /\ ~redis
    /\ \A c \in ChatIds : chats[c] = NoChat

MwNext == Navigate \/ Answer \/ Follow

MwSpec == MwInit /\ [][MwNext]_vars

(* ------------------------------ claims --------------------------------- *)

\* Request r takes its first step: the handler reads the request.
Arrives(r, kind) == req[r].kind = "none" /\ req'[r].kind = kind

\* Request r, a readable request of a signed-in user, takes its first step.
ArrivesSignedIn(r, kind) ==
    /\ Arrives(r, kind)
    /\ req'[r].valid
    /\ req'[r].user \in Users

\* The chat request q names exists and belongs to somebody else.
Foreign(q) == chats[q.chat] \notin {NoChat, q.user}

\* Request r has left a message or a stream record in the store.
HasWritten(r) ==
    \/ \E c \in ChatIds : \E i \in 1..Len(msgs[c]) : msgs[c][i].by = r
    \/ StreamIdOf(r) \in StreamIds
    \/ r \in created

\* C1: no user ever has more messages in the 24h window than the ceiling of
\* the user's tier (the POST issued at exactly ceiling messages is denied).
C1_WindowCountWithinCeiling ==
    \A u \in Users :
        getMessageCountByUserId(u) <= MaxMessagesPerDay(UserType(u))

\* C2: a validated, authenticated POST is answered rate_limit exactly when
\* the user's 24h count is strictly greater than the tier's ceiling, and goes
\* on to the chat lookup when count <= ceiling.
C2_DeniedIffCountAboveCeiling ==
    [][\A r \in Reqs :
          ArrivesSignedIn(r, "POST") =>
              LET count == getMessageCountByUserId(req'[r].user)
                  ceiling == MaxMessagesPerDay(UserType(req'[r].user))
              IN  /\ (resp'[r] = "rate_limit") <=> (count > ceiling)
                  /\ (count <= ceiling) =>
                        (resp'[r] = "none" /\ pc'[r] = "getChat")]_vars

\* Both sides of C2: one POST admitted at exactly the ceiling, and the same
\* user's next POST denied.
C2_Witness ==
    \E a, d \in Reqs :
        /\ req[a].kind = "POST" /\ req[d].kind = "POST"
        /\ req[a].user = req[d].user
        /\ resp[a] = "stream"
        /\ resp[d] = "rate_limit"
        /\ getMessageCountByUserId(req[d].user)
              = MaxMessagesPerDay(UserType(req[d].user)) + 1

\* C3: the step that answers rate_limit is the request's first and only
\* step, and it leaves the chats, the messages and the stream records as
\* they were.
C3_RateLimitWritesNothing ==
    [][\A r \in Reqs :
          (resp[r] # "rate_limit" /\ resp'[r] = "rate_limit") =>
              /\ Arrives(r, "POST")
              /\ chats' = chats /\ msgs' = msgs /\ streams' = streams
              /\ produced' = produced /\ log' = log
              /\ pc'[r] = "done"]_vars

C3_Witness ==
    \E r \in Reqs :
        /\ resp[r] = "rate_limit"
        /\ ~HasWritten(r)
        /\ produced[r] = <<>>

\* C4 as claimed: a validated POST of a signed-in user that names an existing
\* chat of another owner is answered forbidden, whatever the requester's quota
\* state, and writes nothing.
C4_ForeignChatAlwaysForbidden ==
    [][\A r \in Reqs :
          ( /\ req'[r].kind = "POST" /\ req'[r].valid /\ req'[r].user \in Users
            /\ Foreign(req'[r])
            /\ resp[r] = "none" /\ resp'[r] # "none" ) =>
              /\ resp'[r] = "forbidden"
              /\ chats' = chats /\ msgs' = msgs /\ streams' = streams]_vars

\* C4 amended: for a validated POST of a signed-in user, while the chat it
\* names exists and belongs to another owner no step of the request writes a
\* chat, a message or a stream record or starts a generation; the quota check
\* comes first and answers rate_limit when the count is above the ceiling,
\* and the chat lookup that finds the other owner's chat answers forbidden.
C4_ForeignChatRejectedWithoutWrite ==
    [][\A r \in Reqs :
          ( /\ req'[r].kind = "POST" /\ req'[r].valid /\ req'[r].user \in Users
            /\ Foreign(req'[r])
            /\ pc[r] \in {"idle", "getChat"} /\ pc'[r] # pc[r] ) =>
              /\ chats' = chats /\ msgs' = msgs /\ streams' = streams
              /\ produced'[r] = <<>> /\ ~HasWritten(r)'
              /\ IF pc[r] = "getChat"
                 THEN resp'[r] = "forbidden" /\ pc'[r] = "done"
                 ELSE IF getMessageCountByUserId(req'[r].user)
                            > MaxMessagesPerDay(UserType(req'[r].user))
                 THEN resp'[r] = "rate_limit" /\ pc'[r] = "done"
                 ELSE resp'[r] = "none" /\ pc'[r] = "getChat"]_vars

\* A POST was answered forbidden and the other owner's chat is as it was.
C4_Witness ==
    \E r \in Reqs :
        /\ req[r].kind = "POST"
        /\ resp[r] = "forbidden"
        /\ Foreign(req[r])
        /\ ~HasWritten(r)

\* C5: a DELETE of an existing chat by a signed-in user who is not its owner
\* is answered forbidden and leaves chats, messages and stream records as
\* they were; a request goes on to deleteChatById only when the chat's userId
\* is the requester's.
C5_DeleteByNonOwnerForbidden ==
    [][\A r \in Reqs :
          /\ (ArrivesSignedIn(r, "DELETE") /\ Foreign(req'[r])) =>
                /\ resp'[r] = "forbidden" /\ pc'[r] = "done"
                /\ chats' = chats /\ msgs' = msgs /\ streams' = streams
          /\ (pc[r] # "deleteChat" /\ pc'[r] = "deleteChat") =>
                /\ req'[r].kind = "DELETE"
                /\ chats[req'[r].chat] = req'[r].user
          /\ ( /\ req[r].kind = "DELETE" /\ pc'[r] # pc[r]
               /\ (chats' # chats \/ msgs' # msgs \/ streams' # streams) ) =>
                (pc[r] = "deleteChat" /\ resp'[r] = "deleted")]_vars

\* A non-owner's DELETE was refused and the chat still holds its messages
\* and its stream record.
C5_Witness ==
    \E r \in Reqs :
        /\ req[r].kind = "DELETE"
        /\ resp[r] = "forbidden"
        /\ Foreign(req[r])
        /\ msgs[req[r].chat] # <<>>
        /\ \E s \in streams : s.chatId = req[r].chat

\* C6: a DELETE of a chat id that does not exist is answered not_found.
C6_DeleteMissingChatNotFound ==
    [][\A r \in Reqs :
          (ArrivesSignedIn(r, "DELETE") /\ chats[req'[r].chat] = NoChat) =>
              resp'[r] = "not_found"]_vars

IsPrefix(a, b) == Len(a) <= Len(b) /\ \A i \in 1..Len(a) : a[i] = b[i]

\* The POST that registered stream id s.
Producer(s) == CHOOSE p \in Reqs : StreamIdOf(p) = s

\* C7: any two attaches to a stream observe sequences one of which is a
\* prefix of the other, and an attach issued after the terminal done event
\* observes the complete published sequence.
C7_AttachReplaysPublishedLog ==
    [][\A r \in Reqs :
          Arrives(r, "GET") =>
              LET p == Producer(req'[r].stream)
              IN  /\ \A o \in Reqs :
                        (req[o].kind = "GET" /\ req[o].stream = req'[r].stream) =>
                            \/ IsPrefix(delivered[o], delivered'[r])
                            \/ IsPrefix(delivered'[r], delivered[o])
                  /\ (redis /\ Closed(log[p]) /\ "done" \in Types(log[p])) =>
                        delivered'[r] = log[p]]_vars

\* C8: a client that was reading a stream, lost its connection and
\* reattaches before done receives every event published so far, once and in
\* order.
C8_ReattachReplaysPrefix ==
    [][\A r \in Reqs :
          Arrives(r, "GET") =>
              LET p == Producer(req'[r].stream)
              IN  ( /\ redis
                    /\ pc[p] = "streaming"
                    /\ ~connected[p]
                    /\ delivered[p] # <<>> ) =>
                        delivered'[r] = log[p]]_vars

\* No other request names the chat of request r.
Alone(r) ==
    \A o \in Reqs \ {r} :
        req[o].kind \in {"POST", "DELETE"} => req[o].chat # req[r].chat

\* C9: a POST that created its chat and was served without a failure (of the
\* broker's configuration or of the model backend) was answered with a stream
\* that ends with done, and the chat then holds exactly the posted user
\* message followed by one assistant message.
C9_NewChatHoldsUserThenAssistant ==
    \A r \in Reqs :
        ( /\ req[r].kind = "POST"
          /\ r \in created
          /\ Alone(r)
          /\ pc[r] = "done"
          /\ resp[r] # "crash"
          /\ "error" \notin Types(produced[r]) ) =>
            /\ resp[r] = "stream"
            /\ Closed(produced[r])
            /\ produced[r][Len(produced[r])].type = "done"
            /\ connected[r] => delivered[r] = produced[r]
            /\ msgs[req[r].chat] = <<UserMessage(r), AssistantMessage(r)>>

C9_Witness ==
    \E r \in Reqs :
        /\ req[r].kind = "POST"
        /\ r \in created
        /\ Alone(r)
        /\ pc[r] = "done"
        /\ Closed(produced[r])
        /\ "error" \notin Types(produced[r])
        /\ Len(msgs[req[r].chat]) = 2

\* The chat of request r has not been deleted by a DELETE.
NotDeleted(r) ==
    \A d \in Reqs :
        (req[d].kind = "DELETE" /\ req[d].chat = req[r].chat) =>
            pc[d] # "deleteChat" /\ resp[d] # "deleted"

\* The client of request r went away while its response was streamed.
Disconnected(r) == resp[r] = "stream" /\ ~connected[r]

C10_DisconnectInvariant ==
    \A r \in Reqs :
        (Disconnected(r) /\ NotDeleted(r)) =>
            /\ pc[r] \in {"streaming", "done"}
            /\ redis => log[r] = produced[r]
            /\ IsPrefix(delivered[r], produced[r])
            /\ pc[r] = "done" =>
                  /\ Closed(produced[r])
                  /\ \E i \in 1..Len(msgs[req[r].chat]) :
                        msgs[req[r].chat][i] = AssistantMessage(r)

\* C10: a client going away while the generation is in progress cancels
\* nothing: the generation reaches its terminal event, every event it yields
\* is appended to the stream's log, and the assistant message is persisted;
\* only the delivery to that client stops.
C10_DisconnectDoesNotCancel ==
    /\ []C10_DisconnectInvariant
    /\ \A r \in Reqs :
          Disconnected(r) ~> (pc[r] \in {"done", "broken"})

\* The client left before the last event; the generation ended with done,
\* the log is complete and the reply is stored.
C10_Witness ==
    \E r \in Reqs :
        /\ Disconnected(r)
        /\ NotDeleted(r)
        /\ redis
        /\ pc[r] = "done"
        /\ Len(delivered[r]) < Len(produced[r])
        /\ log[r] = produced[r]
        /\ "done" \in Types(log[r])

\* The positions of the terminal events of a sequence.
TerminalAt(events) == {i \in 1..Len(events) : events[i].type \in Terminal}

\* C11: every stream of a POST holds at most one terminal event (done or
\* error, never both) and nothing after it, in what was produced, in the
\* relay's log and in what was delivered; a stream whose producer has ended
\* holds exactly one.
C11_ExactlyOneTerminalEvent ==
    \A r \in Reqs :
        /\ TerminalAt(produced[r]) \subseteq {Len(produced[r])}
        /\ TerminalAt(log[r]) \subseteq {Len(log[r])}
        /\ TerminalAt(delivered[r]) \subseteq {Len(delivered[r])}
        /\ IsPrefix(log[r], produced[r])
        /\ (resp[r] = "stream" /\ pc[r] \in {"done", "broken"}) =>
              Cardinality(TerminalAt(produced[r])) = 1

\* A generation that had published tool events ended with error; its log
\* holds the one terminal event, last.
C11_Witness ==
    \E r \in Reqs :
        /\ pc[r] = "done"
        /\ globalCtx[r] = "context"
        /\ "tool-call-result" \in Types(produced[r])
        /\ log[r][Len(log[r])].type = "error"
        /\ Cardinality(TerminalAt(log[r])) = 1

\* Request r's assistant message is in the store.
StoredReply(r) ==
    \E c \in ChatIds : \E i \in 1..Len(msgs[c]) : msgs[c][i] = AssistantMessage(r)

\* C12: an assistant message is in the store only for a generation that
\* ended with done; the finish handler of a stream that ended with error
\* writes none.
C12_AssistantSavedOnlyOnDone ==
    \A r \in Reqs :
        StoredReply(r) =>
            /\ Closed(produced[r])
            /\ produced[r][Len(produced[r])].type = "done"

\* C13: with no broker configured, a POST that gets as far as making the
\* stream context does not fail: it is answered 200 with the producer's
\* events delivered to its caller directly and in order, nothing is logged
\* for replay, and no attach to its stream receives an event.
C13_NoBrokerFallsBackToPassThrough ==
    \A r \in Reqs :
        (req[r].kind = "POST" /\ ~redis /\ globalCtx[r] # "unset") =>
            /\ globalCtx[r] = "null"
            /\ resp[r] = "stream"
            /\ log[r] = <<>>
            /\ IsPrefix(delivered[r], produced[r])
            /\ connected[r] => delivered[r] = produced[r]
            /\ \A g \in Reqs :
                  (req[g].kind = "GET" /\ req[g].stream = StreamIdOf(r)) =>
                      delivered[g] = <<>>

\* Without a broker a generation with a tool round was delivered whole to
\* its caller, and an attach to its stream got nothing.
C13_Witness ==
    \E r, g \in Reqs :
        /\ ~redis
        /\ resp[r] = "stream"
        /\ pc[r] = "done"
        /\ connected[r]
        /\ "tool-call-result" \in Types(delivered[r])
        /\ delivered[r] = produced[r]
        /\ delivered[r][Len(delivered[r])].type = "done"
        /\ req[g].kind = "GET" /\ req[g].stream = StreamIdOf(r)

\* The error responses a POST gives for a request it will not serve.
Rejections == {"bad_request", "unauthorized", "forbidden", "rate_limit"}

\* C14: a POST answered bad_request, unauthorized, forbidden or rate_limit
\* has ended with that one response: it registered no stream id, made no
\* stream context, started no model step, and no event was produced, logged
\* or delivered for it.
C14_RejectedBeforeAnyStream ==
    \A r \in Reqs :
        (req[r].kind = "POST" /\ resp[r] \in Rejections) =>
            /\ pc[r] = "done"
            /\ StreamIdOf(r) \notin StreamIds
            /\ globalCtx[r] = "unset"
            /\ steps[r] = 0 /\ gen[r] = "idle"
            /\ produced[r] = <<>> /\ log[r] = <<>> /\ delivered[r] = <<>>
            /\ ~connected[r]

\* One POST was refused as forbidden while another POST's stream ran.
C14_Witness ==
    \E r, o \in Reqs :
        /\ req[r].kind = "POST" /\ resp[r] = "forbidden"
        /\ StreamIdOf(r) \notin StreamIds
        /\ produced[r] = <<>>
        /\ resp[o] = "stream" /\ produced[o] # <<>>

Last(events) == events[Len(events)]

\* C15: a stream gains an error event only while its 200 response is being
\* streamed; the event carries the fixed message and nothing of the failure,
\* ends the producer, and is added after the events already logged and
\* delivered, which stay as they are; a response that has started as a
\* stream is never replaced by an error response.
C15_BackendFailureIsInBandError ==
    [][\A r \in Reqs :
          /\ ( /\ Len(produced'[r]) > Len(produced[r])
               /\ Last(produced'[r]).type = "error" ) =>
                 /\ pc[r] = "streaming" /\ resp[r] = "stream"
                 /\ pc'[r] \in {"done", "broken"}
                 /\ Last(produced'[r]).payload = "An error occurred."
                 /\ Last(produced'[r]).payload \notin BackendErrors
                 /\ produced'[r] = Append(produced[r], Last(produced'[r]))
                 /\ delivered'[r] =
                       IF connected[r]
                       THEN Append(delivered[r], Last(produced'[r]))
                       ELSE delivered[r]
                 /\ log'[r] =
                       IF globalCtx[r] = "context"
                       THEN Append(log[r], Last(produced'[r]))
                       ELSE log[r]
          /\ resp[r] = "stream" => resp'[r] = "stream"]_vars

\* The model backend failed after a tool round and a chunk of text had been
\* delivered: the client holds them, followed by the error event.
C15_Witness ==
    \E r \in Reqs :
        /\ resp[r] = "stream"
        /\ pc[r] = "done"
        /\ Len(delivered[r]) >= 4
        /\ "text-delta" \in Types(delivered[r])
        /\ Last(delivered[r]).type = "error"
        /\ Last(delivered[r]).payload = "An error occurred."

\* The producer of request r takes a step.
Moves(r) == pc'[r] # pc[r] \/ gen'[r] # gen[r] \/ steps'[r] # steps[r]

\* The last event published for request r is a tool's failure.
AfterToolFailure(r) ==
    /\ pc[r] = "streaming"
    /\ gen[r] = "stepEnd"
    /\ Last(produced[r]).type = "tool-call-result"
    /\ Last(produced[r]).payload = "failure"

\* C16: an invoked tool that comes back, with its output or with a failure,
\* is published as the call's tool-call-result carrying what it came back
\* with, and the generation stays alive; after a failed tool the next step of
\* the generation is a further model step, or done when the step just ended
\* was the last one allowed, never error.
C16_ToolFailureDoesNotAbort ==
    [][\A r \in Reqs :
          /\ (pc[r] = "streaming" /\ gen[r] \in Tools /\ Moves(r)) =>
                /\ produced'[r] = Append(produced[r], Last(produced'[r]))
                /\ Last(produced'[r]).type = "tool-call-result"
                /\ Last(produced'[r]).call = Last(produced[r]).call
                /\ Last(produced'[r]).payload \in ToolOutcomes
                /\ pc'[r] = "streaming"
                /\ gen'[r] = "stepEnd"
          /\ (AfterToolFailure(r) /\ Moves(r)) =>
                \/ /\ steps[r] < StepLimit
                   /\ steps'[r] = steps[r] + 1
                   /\ gen'[r] = "model"
                   /\ pc'[r] = "streaming"
                   /\ produced'[r] = produced[r]
                \/ /\ steps[r] = StepLimit
                   /\ Last(produced'[r]).type = "done"]_vars

\* A tool failed in the first step; the model went on, wrote text, and the
\* stream ended with done.
C16_Witness ==
    \E r \in Reqs :
        /\ pc[r] = "done"
        /\ Len(produced[r]) = 4
        /\ produced[r][2].type = "tool-call-result"
        /\ produced[r][2].payload = "failure"
        /\ produced[r][3].type = "text-delta"
        /\ produced[r][4].type = "done"

ToolEvents == {"tool-call-start", "tool-call-result"}

\* The positions of the events of one kind for tool call c.
At(events, type, c) ==
    {i \in 1..Len(events) : events[i].type = type /\ events[i].call = c}

\* The tool calls a sequence of events mentions.
Calls(events) ==
    {events[i].call : i \in {j \in 1..Len(events) : events[j].type \in ToolEvents}}

\* Every tool call the sequence mentions was announced once, before its
\* result, and has at most one result; exactly one when the sequence is
\* complete.
Paired(events, complete) ==
    \A c \in Calls(events) :
        /\ Cardinality(At(events, "tool-call-start", c)) = 1
        /\ Cardinality(At(events, "tool-call-result", c)) <= 1
        /\ \A i \in At(events, "tool-call-result", c) :
              \A j \in At(events, "tool-call-start", c) : j < i
        /\ complete => Cardinality(At(events, "tool-call-result", c)) = 1

\* The producer of request r's stream has ended.
Ended(r) == resp[r] = "stream" /\ pc[r] \in {"done", "broken"}

\* C17 as claimed: in every stream each tool-call-start has exactly one
\* tool-call-result of the same call after it, no result lacks its start, and
\* the stream reaches done: a stream whose producer has ended ends with done.
C17_ToolCallsPairedThenDone ==
    \A r \in Reqs :
        /\ Paired(produced[r], Ended(r))
        /\ Ended(r) => Last(produced[r]).type = "done"

\* C17 amended: in every stream each tool-call-start has exactly one
\* tool-call-result of the same call after it and no result lacks its start;
\* every stream reaches its one terminal event, which is done unless the
\* model backend failed, and by then every announced call has its result.
C17_ToolCallsPairedThenTerminal ==
    /\ [](\A r \in Reqs :
            /\ Paired(produced[r], Ended(r))
            /\ Paired(log[r], Ended(r) /\ globalCtx[r] = "context")
            /\ Ended(r) => Last(produced[r]).type \in Terminal)
    /\ \A r \in Reqs : (resp[r] = "stream") ~> Ended(r)

\* Two tool rounds, each start with its result, then the stream ended with
\* error.
C17_Witness ==
    \E r \in Reqs :
        /\ Ended(r)
        /\ Last(produced[r]).type = "error"
        /\ Cardinality(Calls(produced[r])) = 2
        /\ Paired(produced[r], TRUE)

\* The generation of request r has used its last step on a tool round.
AtStepLimit(r) == steps[r] = StepLimit /\ gen[r] = "stepEnd"

\* C18: a generation takes at most 5 model steps, hence at most 5 tool
\* rounds; when the fifth step ends with a tool result the model is not
\* called again and the stream closes with done, not error; and every
\* generation reaches the end of its stream.
C18_AtMostFiveStepsThenDone ==
    /\ [](\A r \in Reqs :
            /\ steps[r] <= StepLimit
            /\ Cardinality(Calls(produced[r])) <= steps[r]
            /\ (Ended(r) /\ AtStepLimit(r)) => Last(produced[r]).type = "done")
    /\ [][\A r \in Reqs :
            (pc[r] = "streaming" /\ AtStepLimit(r) /\ Moves(r)) =>
                /\ steps'[r] = steps[r]
                /\ Last(produced'[r]).type = "done"]_vars
    /\ \A r \in Reqs : (pc[r] = "streaming") ~> Ended(r)

\* A generation whose model asked for a tool in each of five steps was cut
\* off after the fifth result and ended with done.
C18_Witness ==
    \E r \in Reqs :
        /\ Ended(r)
        /\ AtStepLimit(r)
        /\ Cardinality(Calls(produced[r])) = StepLimit
        /\ produced[r][Len(produced[r]) - 1].type = "tool-call-result"
        /\ Last(produced[r]).type = "done"

\* C19: for a request whose selector is the reasoning model no tool is ever
\* invoked and no tool-call-start or tool-call-result appears in what is
\* produced, logged or delivered; for any other selector, whenever the model
\* is generating, each of getWeather, createDocument, updateDocument and
\* requestSuggestions can be called, and only those are.
C19_ReasoningModelDisablesTools ==
    \A r \in Reqs :
        /\ selector[r] = "chat-model-reasoning" =>
              /\ gen[r] \notin Tools
              /\ Types(produced[r]) \cap ToolEvents = {}
              /\ Types(log[r]) \cap ToolEvents = {}
              /\ Types(delivered[r]) \cap ToolEvents = {}
        /\ ( /\ selector[r] # "chat-model-reasoning"
             /\ pc[r] = "streaming" /\ gen[r] = "model" ) =>
              \A t \in {"getWeather", "createDocument", "updateDocument",
                        "requestSuggestions"} : ENABLED Invoke(r, t)
        /\ gen[r] \in {"idle", "model", "stepEnd", "getWeather", "createDocument",
                       "updateDocument", "requestSuggestions"}

\* A generation with the reasoning model wrote text and ended with done in
\* its first step.
C19_Witness ==
    \E r \in Reqs :
        /\ selector[r] = "chat-model-reasoning"
        /\ Ended(r)
        /\ steps[r] = 1
        /\ "text-delta" \in Types(produced[r])
        /\ Last(produced[r]).type = "done"

\* Request r's handler tries to make the stream context in this step.
Detects(r) == globalCtx[r] = "unset" /\ globalCtx'[r] # "unset"

\* C20: the registry variant is selected once per process and not detected
\* again per request: a handler tries to make the stream context only when
\* no request before it has, and any two POSTs answered with a stream were
\* served by the same variant.
C20_RegistryVariantSelectedOnce ==
    [][\A r \in Reqs :
          /\ Detects(r) => \A o \in Reqs \ {r} : globalCtx[o] = "unset"
          /\ \A o \in Reqs :
                (resp'[r] = "stream" /\ resp'[o] = "stream") =>
                    globalCtx'[r] = globalCtx'[o]]_vars

\* The StreamRecord request r registers.
RecordOf(r) == [streamId |-> StreamIdOf(r), chatId |-> req[r].chat]

\* Request r's producer has started or an event of its stream is out.
Producing(r) == steps[r] > 0 \/ produced[r] # <<>> \/ log[r] # <<>>

\* C21 as claimed: a POST's producer runs and its events are published only
\* under a stream id that has a StreamRecord, the one with the request's chat.
C21_EventsOnlyUnderStreamRecord ==
    \A r \in Reqs :
        (req[r].kind = "POST" /\ Producing(r)) => RecordOf(r) \in streams

\* C21 amended: a POST registers its one stream id, not used before, with the
\* request's chat, and does so before its producer starts and before any
\* event of the stream is out; the record is there while the producer runs
\* and after, unless a DELETE of the chat has removed it.
C21_StreamRecordBeforeProducer ==
    /\ [](\A r \in Reqs :
            /\ \A s \in streams :
                  s.streamId = StreamIdOf(r) =>
                      req[r].kind = "POST" /\ s = RecordOf(r)
            /\ (req[r].kind = "POST" /\ Producing(r) /\ NotDeleted(r)) =>
                  RecordOf(r) \in streams)
    /\ [][\A r \in Reqs :
            /\ (StreamIdOf(r) \notin StreamIds /\ StreamIdOf(r) \in StreamIds') =>
                  /\ pc[r] = "createStreamId" /\ pc'[r] = "openStream"
                  /\ ~Producing(r) /\ ~Producing(r)'
                  /\ streams' = streams \cup {RecordOf(r)}
            /\ (~Producing(r) /\ Producing(r)') =>
                  /\ pc[r] = "openStream"
                  /\ NotDeleted(r) => RecordOf(r) \in streams
            /\ (pc[r] # "openStream" /\ pc'[r] = "openStream") =>
                  RecordOf(r) \in streams']_vars

\* Two POSTs to one chat stream at once, each under its own record.
C21_Witness ==
    \E a, b \in Reqs :
        /\ a # b
        /\ req[a].chat = req[b].chat
        /\ produced[a] # <<>> /\ produced[b] # <<>>
        /\ RecordOf(a) \in streams /\ RecordOf(b) \in streams

\* Nothing is stored for chat c.
NothingStoredFor(c) ==
    /\ msgs[c] = <<>>
    /\ \A s \in streams : s.chatId # c

Fed(r) == convertToModelMessages(uiHistory[r])

\* The message request r posts, as the model is given it.
NewMessage(r) == [role |-> "user", content |-> r]

\* The stored rows h as the model is given them.
AsFed(h) == [i \in 1..Len(h) |-> [role |-> h[i].role, content |-> h[i].by]]

\* How often x occurs in seq.
Occurrences(seq, x) == Cardinality({i \in 1..Len(seq) : seq[i] = x})

\* C23: the step that reads the history leaves the handler with the chat's
\* stored messages, in their stored order, followed by the posted message;
\* the posted message is then in what is fed exactly once, as the last entry;
\* the model runs only on a history that was read; and for a request that has
\* its chat to itself what is fed is what the chat holds while it generates,
\* which is the posted message alone when the request created the chat.
C23_HistoryThenNewMessageOnce ==
    /\ [][\A r \in Reqs :
            (pc[r] = "history" /\ pc'[r] # "history") =>
                /\ msgs' = msgs
                /\ Fed(r)' = AsFed(msgs[req[r].chat]) \o <<NewMessage(r)>>]_vars
    /\ [](\A r \in Reqs :
            /\ uiHistory[r] # <<>> =>
                  /\ Last(Fed(r)) = NewMessage(r)
                  /\ Occurrences(Fed(r), NewMessage(r)) = 1
            /\ steps[r] > 0 => uiHistory[r] # <<>>
            /\ (pc[r] = "streaming" /\ Alone(r)) =>
                  /\ Fed(r) = AsFed(msgs[req[r].chat])
                  /\ r \in created => Fed(r) = <<NewMessage(r)>>)

\* Two generations are running, one on a chat with an earlier exchange and
\* one on the chat its request created.
C23_Witness ==
    \E a, b \in Reqs :
        /\ pc[a] = "streaming" /\ pc[b] = "streaming"
        /\ Len(Fed(a)) = 3 /\ a \notin created
        /\ b \in created /\ Fed(b) = <<NewMessage(b)>>

\* Requests a and b are POSTs of two different users for the same chat id.
Racing(a, b) ==
    /\ a # b
    /\ req[a].kind = "POST" /\ req[b].kind = "POST"
    /\ req[a].valid /\ req[b].valid
    /\ req[a].chat = req[b].chat
    /\ req[a].user # NoUser /\ req[b].user # NoUser
    /\ req[a].user # req[b].user

\* C24: a chat's owner never changes while the chat exists; and of two POSTs
\* of different users for the same chat id (nobody deleting that chat) at most
\* one creates the chat, the chat is then the creator's, and the other request
\* stores no message and no stream record and is answered no stream.
C24_RacingCreationHasOneOwner ==
    /\ [][\A c \in ChatIds :
            chats[c] # NoChat => chats'[c] \in {chats[c], NoChat}]_vars
    /\ [](\A a, b \in Reqs :
            (Racing(a, b) /\ NotDeleted(a)) =>
                /\ ~(a \in created /\ b \in created)
                /\ a \in created =>
                      /\ chats[req[a].chat] = req[a].user
                      /\ ~HasWritten(b)
                      /\ resp[b] \in {"none", "crash", "forbidden", "rate_limit"})

\* Both requests found the id free; one created the chat and streams, the
\* other's saveChat failed.
C24_Witness ==
    \E a, b \in Reqs :
        /\ Racing(a, b)
        /\ a \in created /\ resp[a] = "stream"
        /\ resp[b] = "crash"
        /\ chats[req[a].chat] = req[a].user
        /\ \E i \in 1..Len(msgs[req[a].chat]) : msgs[req[a].chat][i].by = a

\* Request r stores its user message in this step.
StoresUserMessage(r) ==
    /\ req[r].kind = "POST"
    /\ pc[r] = "saveMessages"
    /\ msgs'[req[r].chat] = Append(msgs[req[r].chat], UserMessage(r))

\* C25: the quota gate admits no more requests under concurrency than one
\* after the other: whenever a POST stores its user message, the count of
\* its user's messages in the window is one the gate admits, as it is when
\* nothing runs between the gate's read and the write.
C25_ConcurrentAdmitsNoMoreThanSerial ==
    [][\A r \in Reqs :
          StoresUserMessage(r) =>
              ~QuotaExceeded(getMessageCountByUserId(req[r].user),
                             UserType(req[r].user))]_vars

\* Something request r wrote is in the store.
LeftInStore(r) ==
    \/ r \in created /\ chats[req[r].chat] = req[r].user
    \/ \E c \in ChatIds : \E i \in 1..Len(msgs[c]) : msgs[c][i].by = r
    \/ RecordOf(r) \in streams

\* C26: a POST that has returned anything but the 200 stream has left
\* nothing in the store: no chat, no message, no stream record.
C26_NoStreamNoWrites ==
    \A r \in Reqs :
        (req[r].kind = "POST" /\ pc[r] = "done" /\ resp[r] # "stream") =>
            ~LeftInStore(r)

\* The pieces of text a URL of the model is made of.
Pieces ==
    {Origin, "?"} \cup UNION {{p[i] : i \in 1..Len(p)} : p \in Pathnames}
        \cup UNION {{q[i] : i \in 1..Len(q)} : q \in Searches}

\* decodeURIComponent(text)
decodeURIComponent(text) ==
    [i \in 1..Len(text) |-> CHOOSE p \in Pieces : Escape(p) = text[i]]

\* The redirect to the guest sign-in that carries url as its redirectUrl.
ToGuestWith(response, url) ==
    /\ response.kind = "redirect"
    /\ response.location.pathname = <<"/api", "/auth", "/guest">>
    /\ Len(response.location.search) > 1
    /\ Head(response.location.search) = "redirectUrl="
    /\ decodeURIComponent(Tail(response.location.search)) = href(url)

\* The request of the visit has been answered.
Answered == visit.stage = "answered"

\* The pathname is /api/auth/<something>.
UnderApiAuth(pathname) ==
    /\ Len(pathname) = 3
    /\ startsWith(pathname, <<"/api", "/auth">>)
    /\ pathname[3] \in {"/guest", "/session"}

\* C27 as claimed: a request without a token to any path other than /ping
\* and /api/auth/* is redirected to /api/auth/guest with its URL as
\* redirectUrl; /api/auth/* is passed through whatever the token; /ping is
\* answered 200 'pong' whatever the token; and no visit sees a second
\* redirect.
C27_AnyOtherPathRedirectsToGuest ==
    /\ Answered =>
          /\ ( /\ visit.token = "null"
               /\ visit.url.pathname # <<"/ping">>
               /\ ~UnderApiAuth(visit.url.pathname) ) =>
                    ToGuestWith(visit.response, visit.url)
          /\ UnderApiAuth(visit.url.pathname) => visit.response = PassThrough
          /\ visit.url.pathname = <<"/ping">> => visit.response = Pong
          /\ visit.redirects = 1 => visit.response.kind # "redirect"
    /\ visit.redirects <= 1

\* C27 amended: a request without a token whose pathname the matcher covers
\* and which begins with neither /ping nor /api/auth is redirected to
\* /api/auth/guest with its URL as redirectUrl; a pathname that begins with
\* /api/auth is passed through whatever the token; a pathname that begins
\* with /ping is answered 200 'pong' whatever the token; a request the
\* matcher does not cover is handed on without a redirect; and every visit
\* is passed through or answered after at most one redirect.
C27_GuestRedirectTerminates ==
    /\ Answered =>
          /\ ( /\ visit.token = "null"
               /\ matcher(visit.url.pathname)
               /\ ~startsWith(visit.url.pathname, <<"/ping">>)
               /\ ~startsWith(visit.url.pathname, <<"/api", "/auth">>) ) =>
                    ToGuestWith(visit.response, visit.url)
          /\ startsWith(visit.url.pathname, <<"/api", "/auth">>) =>
                visit.response = PassThrough
          /\ startsWith(visit.url.pathname, <<"/ping">>) => visit.response = Pong
          /\ ~matcher(visit.url.pathname) => visit.response = PassThrough
          /\ visit.redirects = 1 => visit.response.kind # "redirect"
    /\ visit.redirects <= 1

\* A visit of /chat/1?q=1 without a token was redirected to the guest
\* sign-in, and the request for that was passed through.
C27_Witness ==
    /\ Answered
    /\ visit.token = "null"
    /\ visit.redirects = 1
    /\ visit.url.pathname = <<"/api", "/auth", "/guest">>
    /\ Len(visit.url.search) > 1
    /\ decodeURIComponent(Tail(visit.url.search))
          = href([pathname |-> <<"/chat", "/1">>, search |-> <<"q=1">>])
    /\ visit.response = PassThrough

=============================================================================
